---------------------------- MODULE Spec2Model ----------------------------
(* A model of src/app.py: the ResearchAgent pipeline (plan, parallel       *)
(* search, extract findings, synthesize report), its fallback generator,   *)
(* the in-memory history and the Flask route handlers.                     *)
(*                                                                         *)
(* Text is a sequence of tokens; an f-string is the concatenation of its   *)
(* literal chunks and the substituted values.  A value decoded from JSON   *)
(* is tagged with its type: [t |-> "object", v |-> record],               *)
(* [t |-> "array", v |-> sequence], [t |-> "string", v |-> token].        *)
EXTENDS Integers, Sequences, FiniteSets, TLC

VARIABLES
    OPENAI_API_KEY,     \* app.py:25  TRUE iff the variable is set and non-empty
    SERPER_API_KEY,     \* app.py:26  TRUE iff the variable is set and non-empty
    openai,             \* environment: how the completion endpoint replies
    serper,             \* environment: how the search endpoint replies
    research_history,   \* app.py:36  agent.research_history
    clock,              \* the wall clock read by datetime.now()
    served,             \* research() calls started so far
    run,                \* the locals of the latest research() call of Spec
    response,           \* the latest HTTP response a route handler of Spec sent
    frames              \* SpecConc: the locals of each request thread

vars == <<OPENAI_API_KEY, SERPER_API_KEY, openai, serper, research_history,
          clock, served, run, response, frames>>

-----------------------------------------------------------------------------
(* Bounds of the model *)

\* research() calls a behaviour of Spec makes
MaxRuns == 1

\* research() calls a behaviour of SpecHistory makes
MaxHistoryRuns == 11

\* request threads of SpecConc
NumThreads == 2

\* clock ticks in one second: strftime("%Y%m%d_%H%M%S") cuts a reading to it
TicksPerSecond == 2

-----------------------------------------------------------------------------
(* Inputs *)

Queries == { <<"ai">>, <<"gene", "editing">> }

EmptyQuery == <<>>

Depths == {"quick", "standard", "deep", "thorough"}

-----------------------------------------------------------------------------
(* Python helpers *)

Min(a, b) == IF a <= b THEN a ELSE b

Max(a, b) == IF a >= b THEN a ELSE b

\* lst[:n]
Head_(lst, n) == SubSeq(lst, 1, Min(n, Len(lst)))

\* lst[-n:]
Tail_(lst, n) == SubSeq(lst, Max(1, Len(lst) - n + 1), Len(lst))

\* sub in text
Contains(text, sub) ==
    \E i \in 0..(Len(text) - Len(sub)) : SubSeq(text, i + 1, i + Len(sub)) = sub

JObject(rec) == [t |-> "object", v |-> rec]

JArray(seq) == [t |-> "array", v |-> seq]

JString(s) == [t |-> "string", v |-> s]

\* the value of a local that is not assigned yet
None == [t |-> "none"]

DEMO_MODE == ~OPENAI_API_KEY

-----------------------------------------------------------------------------
(* Fallback generator *)

num_searches(depth) ==
    CASE depth = "quick" -> 3
      [] depth = "standard" -> 5
      [] depth = "deep" -> 8
      [] OTHER -> 5

_demo_sub_questions(query) ==
    << <<"What are the fundamentals of ">> \o query \o <<"?">>,
       <<"What are current trends in ">> \o query \o <<"?">>,
       <<"What are expert opinions on ">> \o query \o <<"?">>,
       <<"What are the challenges related to ">> \o query \o <<"?">>,
       <<"What does the future look like for ">> \o query \o <<"?">> >>

\* C10 mutant: one template is a plain string, its {query} never substituted
_demo_search_queries_literal(query) ==
    << query \o <<" explained">>,
       <<"{query} latest trends 2024">>,
       query \o <<" expert analysis">>,
       query \o <<" challenges problems">>,
       query \o <<" future predictions">> >>

_demo_search_queries(query) ==
    << query \o <<" explained">>,
       query \o <<" latest trends 2024">>,
       query \o <<" expert analysis">>,
       query \o <<" challenges problems">>,
       query \o <<" future predictions">> >>

_demo_research_plan(query, depth) ==
    JObject([main_objective |-> <<"Understand the key aspects of: ">> \o query,
             sub_questions |-> Head_(_demo_sub_questions(query), num_searches(depth)),
             search_queries |-> Head_(_demo_search_queries(query), num_searches(depth)),
             expected_sources |-> <<"Industry reports", "News articles",
                                    "Expert blogs", "Academic papers">>])

_demo_search_result(query) ==
    [query |-> query,
     results |-> <<
        [title |-> <<"Comprehensive Guide to ">> \o query,
         snippet |-> <<"An in-depth look at ">> \o query \o <<" and its implications...">>,
         link |-> "https://example.com/1"],
        [title |-> query \o <<": What Experts Say">>,
         snippet |-> <<"Leading experts weigh in on ">> \o query \o <<"...">>,
         link |-> "https://example.com/2"],
        [title |-> <<"The Future of ">> \o query,
         snippet |-> <<"Predictions and trends for ">> \o query \o <<" in the coming years...">>,
         link |-> "https://example.com/3"] >>]

_demo_search_results(queries) ==
    [i \in 1..Len(queries) |-> _demo_search_result(queries[i])]

_demo_finding(text, confidence) ==
    JObject([finding |-> text, confidence |-> confidence])

_demo_findings(query) ==
    << _demo_finding(query \o <<" is rapidly evolving with new developments emerging regularly">>, "high"),
       _demo_finding(<<"Industry experts recommend a balanced approach to ">> \o query, "high"),
       _demo_finding(<<"There are both opportunities and challenges in the ">> \o query \o <<" space">>, "medium"),
       _demo_finding(<<"Future trends suggest continued growth and innovation in ">> \o query, "medium"),
       _demo_finding(<<"Best practices for ">> \o query \o <<" emphasize adaptability and continuous learning">>, "high") >>

_demo_report(query, findings) ==
    JObject([
        executive_summary |-> <<"Research on \"">> \o query \o <<"\" reveals a dynamic and evolving landscape. ...">>,
        key_insights |-> <<
            [insight |-> "Rapid Evolution",
             explanation |-> <<"The ">> \o query \o <<" space is characterized by continuous innovation and adaptation.">>],
            [insight |-> "Expert Consensus",
             explanation |-> <<"Industry leaders generally agree on core best practices while diverging on implementation details.">>],
            [insight |-> "Balanced Opportunity",
             explanation |-> <<"Significant potential exists, but success requires careful navigation of challenges.">>],
            [insight |-> "Future Orientation",
             explanation |-> <<"Forward-thinking approaches are favored over traditional methodologies.">>] >>,
        conclusions |-> <<
            query \o <<" represents a significant area of interest with measurable impact">>,
            <<"Success requires both strategic planning and tactical flexibility">>,
            <<"Continuous learning and adaptation are essential">> >>,
        limitations |-> <<
            <<"Some aspects require deeper domain expertise to fully evaluate">>,
            <<"Rapidly changing landscape may affect the longevity of findings">>,
            <<"Individual context may significantly affect applicability">> >>,
        recommendations |-> <<
            <<"Develop a phased approach to engaging with ">> \o query,
            <<"Invest in continuous learning and skill development">>,
            <<"Monitor emerging trends and adjust strategy accordingly">>,
            <<"Seek expert consultation for high-stakes decisions">> >>])

-----------------------------------------------------------------------------
(* The providers.  A reply is what one outbound call meets: a transport    *)
(* failure, a body that is not JSON, or a JSON body.  The status line of a *)
(* reply is carried along: no call site reads it.  How a provider replies  *)
(* is an unknown of the environment, drawn in Init and kept for the whole  *)
(* behaviour.  Left out of the replies: organic results that are not       *)
(* objects and a search_queries value that is not a list.                  *)

Ord(i) == <<"1", "2", "3", "4", "5", "6", "7", "8">>[i]

AiReply(kind, shape, n, m) == [kind |-> kind, shape |-> shape, n |-> n, m |-> m]

\* replies of the completion endpoint to the Plan stage's request
PlanReplies ==
    { AiReply("network", "none", 0, 0), AiReply("not_json", "none", 0, 0),
      AiReply("json", "plan", 2, 2), AiReply("json", "plan", 1, 2),
           AiReply("json", "no_search_queries", 0, 0), AiReply("json", "array", 0, 0) }

\* replies of the completion endpoint to one request of the Extract stage
ExtractReplies ==
    { AiReply("non2xx", "none", 0, 0), AiReply("json", "findings", 2, 0),
      AiReply("json", "findings_object", 2, 0) }

\* replies of the completion endpoint to the Synthesize stage's request
SynthesizeReplies ==
    { AiReply("malformed_body", "none", 0, 0), AiReply("json", "report", 0, 0),
      AiReply("json", "array", 0, 0) }

SearchReply(kind, status, shape, n) == [kind |-> kind, status |-> status, shape |-> shape, n |-> n]

\* replies of the search endpoint to one request
SearchReplies ==
    { SearchReply("network", 0, "none", 0),
      SearchReply("json", 403, "error_object", 0),
      SearchReply("json", 200, "organic", 0),
      SearchReply("json", 200, "organic", 6) }

\* a provider answers the odd-numbered and the even-numbered calls of a
\* stage with one reply each
Patterns(replies) == [odd : replies, even : replies]

ReplyAt(pattern, i) == IF i % 2 = 1 THEN pattern.odd ELSE pattern.even

OpenAiBehaviours ==
    [plan : PlanReplies, extract : Patterns(ExtractReplies), synthesize : SynthesizeReplies]

SerperBehaviours == Patterns(SearchReplies)

\* a provider without credentials is never called
NotCalled == AiReply("network", "none", 0, 0)

OpenAiUnused ==
    [plan |-> NotCalled, extract |-> [odd |-> NotCalled, even |-> NotCalled],
     synthesize |-> NotCalled]

SerperUnused ==
    [odd |-> SearchReply("network", 0, "none", 0), even |-> SearchReply("network", 0, "none", 0)]

\* the JSON text a completion carries, decoded
PlanContent(reply, query) ==
    CASE reply.shape = "plan" ->
            JObject([main_objective |-> <<"Learn about ">> \o query,
                     sub_questions |-> [i \in 1..reply.m |-> <<"Question ", Ord(i), " on ">> \o query],
                     search_queries |-> [i \in 1..reply.n |-> query \o <<" aspect ", Ord(i)>>],
                     expected_sources |-> <<"Papers">>])
      [] reply.shape = "no_search_queries" ->
            JObject([main_objective |-> <<"Learn about ">> \o query])
      [] OTHER -> JArray(<<>>)

FindingsList(reply, query) ==
    [i \in 1..reply.n |->
        JObject([finding |-> <<"Finding ", Ord(i), " on ">> \o query,
                 confidence |-> IF i % 2 = 1 THEN "high" ELSE "low"])]

FindingsContent(reply, query) ==
    IF reply.shape = "findings" THEN JArray(FindingsList(reply, query))
    ELSE JObject([findings |-> FindingsList(reply, query)])

ReportContent(reply, query) ==
    IF reply.shape = "report"
    THEN JObject([executive_summary |-> <<"Summary of ">> \o query,
                  key_insights |-> << [insight |-> "One", explanation |-> query],
                                      [insight |-> "Two", explanation |-> query],
                                      [insight |-> "Three", explanation |-> query] >>,
                  conclusions |-> << query >>,
                  limitations |-> << query >>,
                  recommendations |-> << query >>])
    ELSE JArray(<<>>)

Organic(reply, query) ==
    [i \in 1..reply.n |->
        [title |-> <<"Result ", Ord(i), " for ">> \o query,
         snippet |-> <<"About ">> \o query,
         link |-> "https://example.org"]]

\* one request to the completion endpoint: session.post, resp.json(),
\* data['choices'][0]['message']['content'], json.loads(content).  Anything
\* but a JSON completion raises: a network failure in post, a body that is
\* not JSON in resp.json(), an error body (non-2xx) at data['choices'], a
\* completion that is not JSON in json.loads.
Completion(reply, content) ==
    IF reply.kind = "json"
    THEN [raised |-> FALSE, value |-> content]
    ELSE [raised |-> TRUE, value |-> None]

Call(to, stage, input) == [to |-> to, stage |-> stage, input |-> input]

-----------------------------------------------------------------------------
(* Stage functions.  Each returns the stage's value, the outbound calls it *)
(* made, and whether it raised.                                            *)

\* ResearchAgent.create_research_plan
create_research_plan(query, depth) ==
    IF DEMO_MODE
    THEN [plan |-> _demo_research_plan(query, depth), calls |-> <<>>]
    ELSE LET c == Completion(openai.plan, PlanContent(openai.plan, query))
         IN  [plan |-> IF c.raised THEN _demo_research_plan(query, depth) ELSE c.value,
              calls |-> << Call("openai", "plan", query) >>]

\* plan['search_queries'] in research(): a KeyError when the key is missing,
\* a TypeError when the plan is a list
search_queries_of(plan) ==
    IF plan.t = "object" /\ "search_queries" \in DOMAIN plan.v
    THEN [raised |-> FALSE, value |-> plan.v.search_queries]
    ELSE [raised |-> TRUE, value |-> <<>>]

\* ResearchAgent._search_web: every exception is caught and turned into an
\* outcome with an error; a JSON body is read whatever its status
_search_web(query, reply) ==
    IF reply.kind = "json" /\ reply.shape \in {"organic", "error_object"}
    THEN [query |-> query,
          results |-> Head_(IF reply.shape = "organic" THEN Organic(reply, query) ELSE <<>>, 5)]
    ELSE [query |-> query, results |-> <<>>, error |-> reply.kind]

\* isinstance(r, Exception) on a result of asyncio.gather
IsException(r) == "exception" \in DOMAIN r

\* whether execute_searches takes the live path
search_is_live == ~(DEMO_MODE \/ ~SERPER_API_KEY)

\* the results asyncio.gather returns, in the order of the tasks
gather_searches(queries) ==
    [i \in 1..Len(queries) |-> _search_web(queries[i], ReplyAt(serper, i))]

\* C17 mutant: a query whose call failed is sent a second time
execute_searches_retry(queries) ==
    IF ~search_is_live
    THEN [results |-> _demo_search_results(queries), calls |-> <<>>]
    ELSE LET first == [i \in 1..Len(queries) |-> Call("serper", "search", queries[i])]
             failed == SelectSeq(gather_searches(queries), LAMBDA r : "error" \in DOMAIN r)
         IN  [results |-> SelectSeq(gather_searches(queries), LAMBDA r : ~IsException(r)),
              calls |-> first \o [i \in 1..Len(failed) |->
                                    Call("serper", "search", failed[i].query)]]

\* ResearchAgent.execute_searches
execute_searches(queries) ==
    IF ~search_is_live
    THEN [results |-> _demo_search_results(queries), calls |-> <<>>]
    ELSE [results |-> SelectSeq(gather_searches(queries), LAMBDA r : ~IsException(r)),
          calls |-> [i \in 1..Len(queries) |-> Call("serper", "search", queries[i])]]

\* the keys of a dict, as iterating it yields them
RECURSIVE Keys(_)
Keys(dom) ==
    IF dom = {} THEN <<>>
    ELSE LET k == CHOOSE x \in dom : TRUE IN <<JString(k)>> \o Keys(dom \ {k})

\* findings.extend(parsed): a list gives its elements, a dict its keys
extend(findings, parsed) ==
    IF parsed.t = "array" THEN findings \o parsed.v
    ELSE findings \o Keys(DOMAIN parsed.v)

\* C14 mutant: the loop does not skip an outcome without results
analyze_one_no_skip(original_query, result, acc) ==
    LET reply == ReplyAt(openai.extract, Len(acc.calls) + 1)
        c == Completion(reply, FindingsContent(reply, result.query))
        calls == Append(acc.calls, Call("openai", "extract", result.query))
    IN  IF c.raised
        THEN [findings |-> acc.findings, calls |-> calls]
        ELSE [findings |-> extend(acc.findings, c.value), calls |-> calls]

\* one iteration of the loop of analyze_results over search_results; acc is
\* the findings and the calls so far
analyze_one(original_query, result, acc) ==
    IF result.results = <<>>
    THEN acc
    ELSE LET reply == ReplyAt(openai.extract, Len(acc.calls) + 1)
             c == Completion(reply, FindingsContent(reply, result.query))
             calls == Append(acc.calls, Call("openai", "extract", result.query))
         IN  IF c.raised
             THEN [findings |-> acc.findings, calls |-> calls]
             ELSE [findings |-> extend(acc.findings, c.value), calls |-> calls]

RECURSIVE analyze_loop(_, _, _, _)
analyze_loop(original_query, search_results, i, acc) ==
    IF i > Len(search_results)
    THEN acc
    ELSE analyze_loop(original_query, search_results, i + 1,
                      analyze_one(original_query, search_results[i], acc))

\* C5 mutant: fewer than five live findings are topped up from the fallback
analyze_return_padded(original_query, findings) ==
    IF Len(findings) >= 5 THEN findings
    ELSE findings \o _demo_findings(original_query)

\* the return statement of analyze_results
analyze_return(original_query, findings) ==
    IF findings # <<>> THEN findings ELSE _demo_findings(original_query)

\* ResearchAgent.analyze_results
analyze_results(original_query, search_results) ==
    IF DEMO_MODE
    THEN [findings |-> _demo_findings(original_query), calls |-> <<>>]
    ELSE LET acc == analyze_loop(original_query, search_results, 1,
                                 [findings |-> <<>>, calls |-> <<>>])
         IN  [findings |-> analyze_return(original_query, acc.findings),
              calls |-> acc.calls]

\* findings_text of synthesize_report, one line per finding
findings_text(findings) ==
    [i \in 1..Len(findings) |->
        <<"- [", findings[i].v.confidence, "] ">> \o findings[i].v.finding]

\* ResearchAgent.synthesize_report: f.get is outside the try and raises an
\* AttributeError on a finding that is not a dict
synthesize_report(query, findings, depth) ==
    IF DEMO_MODE
    THEN [raised |-> FALSE, report |-> _demo_report(query, findings), calls |-> <<>>]
    ELSE IF \E i \in 1..Len(findings) : findings[i].t # "object"
    THEN [raised |-> TRUE, report |-> None, calls |-> <<>>]
    ELSE LET c == Completion(openai.synthesize, ReportContent(openai.synthesize, query))
         IN  [raised |-> FALSE,
              report |-> IF c.raised THEN _demo_report(query, findings) ELSE c.value,
              calls |-> << Call("openai", "synthesize", findings_text(findings)) >>]

\* strftime("%Y%m%d_%H%M%S") of a clock reading
research_id_of(now) == now \div TicksPerSecond

\* C19 mutant: the flag of a record tells whether its report came from the
\* fallback generator
result_of_per_run(research_id, query, depth, plan, search_results, findings, report, now) ==
    [id |-> research_id,
     query |-> query,
     depth |-> depth,
     plan |-> plan,
     sources_searched |-> Len(search_results),
     findings |-> findings,
     report |-> report,
     timestamp |-> now,
     demo_mode |-> (DEMO_MODE \/ report = _demo_report(query, findings))]

\* the result dict of research()
result_of(research_id, query, depth, plan, search_results, findings, report, now) ==
    [id |-> research_id,
     query |-> query,
     depth |-> depth,
     plan |-> plan,
     sources_searched |-> Len(search_results),
     findings |-> findings,
     report |-> report,
     timestamp |-> now,
     demo_mode |-> DEMO_MODE]

\* ResearchAgent.research, run to its end: the locals when it returns or
\* raises.  The clock is read at the start and once more for the timestamp.
research(query, depth, now) ==
    LET p  == create_research_plan(query, depth)
        sq == search_queries_of(p.plan)
        s  == execute_searches(sq.value)
        a  == analyze_results(query, s.results)
        r  == synthesize_report(query, a.findings, depth)
        base == [query |-> query, depth |-> depth, research_id |-> research_id_of(now),
                 plan |-> p.plan, search_results |-> <<>>, findings |-> <<>>,
                 report |-> None, result |-> None, calls |-> p.calls,
                 raised |-> TRUE, stage |-> "plan"]
    IN  IF sq.raised THEN base
        ELSE IF r.raised
        THEN [base EXCEPT !.search_results = s.results, !.findings = a.findings,
                          !.calls = p.calls \o s.calls \o a.calls,
                          !.stage = "extract"]
        ELSE [base EXCEPT !.search_results = s.results, !.findings = a.findings,
                          !.report = r.report,
                          !.calls = p.calls \o s.calls \o a.calls \o r.calls,
                          !.raised = FALSE, !.stage = "synthesize",
                          !.result = result_of(research_id_of(now), query, depth, p.plan,
                                               s.results, a.findings, r.report, now + 1)]

-----------------------------------------------------------------------------
(* The state after the module is loaded and the agent constructed *)

NoRun ==
    [query |-> EmptyQuery, depth |-> "standard", research_id |-> 0, plan |-> None,
     search_results |-> <<>>, findings |-> <<>>, report |-> None, result |-> None,
     calls |-> <<>>, raised |-> FALSE, stage |-> "none"]

NoResponse == [route |-> "none", status |-> 0, body |-> None]

Threads == 1..NumThreads

NoFrame ==
    [pc |-> "idle", query |-> EmptyQuery, depth |-> "standard", research_id |-> 0,
     plan |-> None, queries |-> <<>>, pending |-> {}, completed |-> <<>>,
     search_results |-> <<>>, i |-> 1, acc |-> [findings |-> <<>>, calls |-> <<>>],
     findings |-> <<>>, report |-> None, result |-> None, calls |-> <<>>,
     response |-> NoResponse]

Init ==
    /\ OPENAI_API_KEY \in BOOLEAN
    /\ SERPER_API_KEY \in BOOLEAN
    /\ openai \in IF OPENAI_API_KEY THEN OpenAiBehaviours ELSE {OpenAiUnused}
    /\ serper \in IF SERPER_API_KEY THEN SerperBehaviours ELSE {SerperUnused}
    /\ research_history = <<>>
    /\ clock = 0
    /\ served = 0
    /\ run = NoRun
    /\ response = NoResponse
    /\ frames = [t \in Threads |-> NoFrame]

config == <<OPENAI_API_KEY, SERPER_API_KEY, openai, serper>>

-----------------------------------------------------------------------------
(* Route handlers, each run to its end *)

Response(route, status, body) == [route |-> route, status |-> status, body |-> body]

\* start_research: POST /api/research.  An exception of research() leaves
\* the handler and the server answers 500.
start_research(query, depth) ==
    IF query = EmptyQuery
    THEN /\ response' = Response("/api/research", 400, [error |-> "Query is required"])
         /\ UNCHANGED <<config, research_history, clock, served, run, frames>>
    ELSE LET r == research(query, depth, clock)
         IN  /\ run' = r
             /\ served' = served + 1
             /\ IF r.raised
                THEN /\ clock' = clock + 1
                     /\ research_history' = research_history
                     /\ response' = Response("/api/research", 500, None)
                ELSE /\ clock' = clock + 2
                     /\ research_history' = Append(research_history, r.result)
                     /\ response' = Response("/api/research", 200, r.result)
             /\ UNCHANGED <<config, frames>>

\* C8 mutant: the slice [:10], the first ten records instead of the last
history_listing_first(history) == Head_(history, 10)

\* agent.research_history[-10:]
history_listing(history) == Tail_(history, 10)

\* get_history: GET /api/history
get_history ==
    /\ response' = Response("/api/history", 200, history_listing(research_history))
    /\ UNCHANGED <<config, research_history, clock, served, run, frames>>

\* status: GET /api/status
status ==
    /\ response' = Response("/api/status", 200,
                            [status |-> "operational",
                             demo_mode |-> DEMO_MODE,
                             features |-> [ai_planning |-> ~DEMO_MODE,
                                           web_search |-> SERPER_API_KEY,
                                           synthesis |-> ~DEMO_MODE]])
    /\ UNCHANGED <<config, research_history, clock, served, run, frames>>

StartResearch ==
    /\ served < MaxRuns
    /\ \E query \in Queries \cup {EmptyQuery}, depth \in Depths : start_research(query, depth)

Next == StartResearch

Spec == Init /\ [][Next]_vars

-----------------------------------------------------------------------------
(* Claims about one research() call, checked under Spec *)

\* the latest research() call ran to its return statement
Returned == run.stage = "synthesize" /\ ~run.raised

\* the latest research() call got its search results
Searched == run.stage \in {"extract", "synthesize"}

RecordKeys ==
    {"id", "query", "depth", "plan", "sources_searched", "findings", "report",
     "timestamp", "demo_mode"}

\* C1: whatever the providers reply in the Plan, Search, Extract and
\* Synthesize stages, research() on a non-empty query never raises: it
\* returns a record with every key present and the request is answered 200.
C1_ResearchNeverRaises ==
    (response.route = "/api/research" /\ response.status # 400)
        => /\ ~run.raised
           /\ response.status = 200
           /\ RecordKeys \subseteq DOMAIN response.body

\* C2: of N sub-queries any subset may fail; the Search stage returns at
\* most N outcomes and the list it hands to Extract holds no outcome with
\* an error and no outcome with an empty result list.
C2_FailedOutcomesDropped ==
    Searched
        => /\ Len(run.search_results) <= Len(run.plan.v.search_queries)
           /\ \A i \in 1..Len(run.search_results) :
                /\ "error" \notin DOMAIN run.search_results[i]
                /\ run.search_results[i].results # <<>>

\* C3: sources_searched of a returned record is the number of search
\* outcomes with at least one result.
C3_SourcesSearchedCountsResults ==
    Returned
        => run.result.sources_searched =
             Cardinality({i \in 1..Len(run.search_results) :
                            run.search_results[i].results # <<>>})

\* C4: the returned record has 3 search queries for depth quick, 5 for
\* standard, 8 for deep and 5 for an unrecognized depth, in either mode.
C4_QueryCountByDepth ==
    Returned
        => Len(run.result.plan.v.search_queries) =
             CASE run.depth = "quick" -> 3
               [] run.depth = "standard" -> 5
               [] run.depth = "deep" -> 8
               [] OTHER -> 5

\* the requests of the Extract stage among the calls of a run
ExtractCalls == SelectSeq(run.calls, LAMBDA c : c.stage = "extract")

\* what the k-th completion of the Extract stage contributes: the findings
\* of a JSON array, the key of a JSON object, nothing when the call failed
LiveFindingsOf(k) ==
    LET reply == ReplyAt(openai.extract, k)
    IN  CASE reply.kind # "json" -> <<>>
          [] reply.shape = "findings" -> FindingsList(reply, ExtractCalls[k].input)
          [] OTHER -> << JString("findings") >>

RECURSIVE LiveFindingsUpTo(_)
LiveFindingsUpTo(k) ==
    IF k = 0 THEN <<>> ELSE LiveFindingsUpTo(k - 1) \o LiveFindingsOf(k)

IsFallbackFinding(f) ==
    \E i \in 1..Len(_demo_findings(run.query)) : f = _demo_findings(run.query)[i]

\* C5: the result of the Extract stage is the concatenation of the findings
\* of the live completions when that is non-empty, and otherwise the whole
\* of the fallback findings; no result holds findings of both.
C5_NoMixedFindings ==
    Searched
        => LET live == IF DEMO_MODE THEN <<>> ELSE LiveFindingsUpTo(Len(ExtractCalls))
           IN  /\ live # <<>> => run.findings = live
               /\ live = <<>> => run.findings = _demo_findings(run.query)
               /\ \/ \A i \in 1..Len(run.findings) : IsFallbackFinding(run.findings[i])
                  \/ \A i \in 1..Len(run.findings) : ~IsFallbackFinding(run.findings[i])

\* C5 witness: a live run in which one completion of the Extract stage
\* failed, another yielded findings, and the result is the live findings.
C5_Witness ==
    /\ Searched /\ ~DEMO_MODE
    /\ \E k \in 1..Len(ExtractCalls) : LiveFindingsOf(k) = <<>>
    /\ \E k \in 1..Len(ExtractCalls) : LiveFindingsOf(k) # <<>>
    /\ run.findings # <<>>
    /\ \A i \in 1..Len(run.findings) : ~IsFallbackFinding(run.findings[i])

SearchCalls == SelectSeq(run.calls, LAMBDA c : c.to = "serper")

AiCalls == SelectSeq(run.calls, LAMBDA c : c.to = "openai")

\* C6: the Search stage goes live or falls back independently of the AI
\* stages: with AI credentials only, the AI stages call out and Search does
\* not; with search credentials only, Search calls out and the AI stages
\* do not.
C6_SearchModeIndependent ==
    (Searched /\ run.plan.v.search_queries # <<>>)
        => /\ (OPENAI_API_KEY /\ ~SERPER_API_KEY)
                => (SearchCalls = <<>> /\ AiCalls # <<>>)
           /\ (SERPER_API_KEY /\ ~OPENAI_API_KEY)
                => (SearchCalls # <<>> /\ AiCalls = <<>>)

\* a reply of the search endpoint that is a failure of the call
SearchFailure(reply) == reply.kind # "json" \/ reply.status # 200

\* C9: live, the AI provider up and every search call failing: every
\* outcome carries an error and no result, the Extract stage makes no
\* request and returns the whole of the fallback findings, and the
\* Synthesize stage makes its one request with those findings as input.
C9_SearchDownAiUp ==
    ( /\ Returned /\ OPENAI_API_KEY /\ SERPER_API_KEY
      /\ openai.plan.shape = "plan" /\ openai.synthesize.shape = "report"
      /\ SearchFailure(serper.odd) /\ SearchFailure(serper.even) )
        => /\ \A i \in 1..Len(run.search_results) :
                /\ "error" \in DOMAIN run.search_results[i]
                /\ run.search_results[i].results = <<>>
           /\ ExtractCalls = <<>>
           /\ run.findings = _demo_findings(run.query)
           /\ SelectSeq(run.calls, LAMBDA c : c.stage = "synthesize")
                = << Call("openai", "synthesize", findings_text(_demo_findings(run.query))) >>

\* C10: in fallback mode every search query of the returned record holds
\* the query text, sources_searched is the number of search queries (3 for
\* quick), the findings are 5 with confidences high, high, medium, medium,
\* high, and the report has 4 key insights.
C10_FallbackRecord ==
    (Returned /\ DEMO_MODE)
        => LET rec == run.result
               sq == rec.plan.v.search_queries
           IN  /\ \A i \in 1..Len(sq) : Contains(sq[i], rec.query)
               /\ rec.sources_searched = Len(sq)
               /\ rec.depth = "quick" => rec.sources_searched = 3
               /\ Len(rec.findings) = 5
               /\ [i \in 1..5 |-> rec.findings[i].v.confidence]
                    = <<"high", "high", "medium", "medium", "high">>
               /\ Len(rec.report.v.key_insights) = 4

\* C10 witness: a quick run without credentials has returned its record.
C10_Witness ==
    /\ Returned /\ ~OPENAI_API_KEY /\ ~SERPER_API_KEY
    /\ run.depth = "quick" /\ run.query = <<"gene", "editing">>
    /\ research_history # <<>>

-----------------------------------------------------------------------------
(* The history over many runs: SpecHistory.  Each provider is up (every    *)
(* reply well formed) or down (every call fails) for the whole behaviour,  *)
(* so that every research() call returns.                                  *)

OpenAiUp ==
    [plan |-> AiReply("json", "plan", 2, 2),
     extract |-> [odd |-> AiReply("json", "findings", 2, 0),
                  even |-> AiReply("json", "findings", 2, 0)],
     synthesize |-> AiReply("json", "report", 0, 0)]

OpenAiDown ==
    [plan |-> AiReply("network", "none", 0, 0),
     extract |-> [odd |-> AiReply("non2xx", "none", 0, 0),
                  even |-> AiReply("non2xx", "none", 0, 0)],
     synthesize |-> AiReply("malformed_body", "none", 0, 0)]

SerperUp ==
    [odd |-> SearchReply("json", 200, "organic", 6),
     even |-> SearchReply("json", 200, "organic", 6)]

SerperDown ==
    [odd |-> SearchReply("network", 0, "none", 0),
     even |-> SearchReply("network", 0, "none", 0)]

InitHistory ==
    /\ Init
    /\ openai \in {OpenAiUnused, OpenAiUp, OpenAiDown}
    /\ serper \in {SerperUnused, SerperUp, SerperDown}

StartResearchHistory ==
    /\ served < MaxHistoryRuns
    /\ \E query \in {<<"ai">>, EmptyQuery} : start_research(query, "quick")

NextHistory == StartResearchHistory \/ get_history \/ status

SpecHistory == InitHistory /\ [][NextHistory]_vars

\* C8: after n completed research() calls the history listing holds
\* min(n, 10) records, the most recently appended ones, oldest first.
C8_HistoryListing ==
    response.route = "/api/history"
        => LET n == served
               listing == response.body
           IN  /\ Len(research_history) = n
               /\ Len(listing) = Min(n, 10)
               /\ \A i \in 1..Len(listing) :
                    listing[i] = research_history[n - Len(listing) + i]
               /\ \A i \in 1..(Len(listing) - 1) :
                    listing[i].timestamp < listing[i + 1].timestamp

\* C8 witness: a listing returned after more than ten completed calls.
C8_Witness ==
    /\ response.route = "/api/history"
    /\ served > 10
    /\ Len(response.body) = 10
    /\ response.body[10] = research_history[served]

-----------------------------------------------------------------------------
(* Concurrent requests: SpecConc.  The server runs each request in a       *)
(* thread of its own; a thread takes one request through start_research    *)
(* and research(), a step at a time.  The threads share the agent, that is *)
(* research_history, and the clock.                                        *)

OpenAiMixed ==
    [plan |-> AiReply("not_json", "none", 0, 0),
     extract |-> [odd |-> AiReply("json", "findings", 2, 0),
                  even |-> AiReply("non2xx", "none", 0, 0)],
     synthesize |-> AiReply("json", "report", 0, 0)]

OpenAiWrongShape ==
    [plan |-> AiReply("json", "no_search_queries", 0, 0),
     extract |-> [odd |-> AiReply("json", "findings", 2, 0),
                  even |-> AiReply("json", "findings", 2, 0)],
     synthesize |-> AiReply("json", "report", 0, 0)]

SerperMixed ==
    [odd |-> SearchReply("network", 0, "none", 0),
     even |-> SearchReply("json", 200, "organic", 6)]

InitConc ==
    /\ Init
    /\ openai \in {OpenAiUnused, OpenAiUp, OpenAiMixed, OpenAiWrongShape}
    /\ serper \in {SerperUnused, SerperUp, SerperMixed}

frame_vars == <<config, research_history, clock, served, run, response>>

\* start_research up to the call of research(), and the first statement of
\* research(): the clock read for research_id
Begin(t) ==
    /\ frames[t].pc = "idle"
    /\ \E query \in Queries \cup {EmptyQuery} :
         IF query = EmptyQuery
         THEN /\ frames' = [frames EXCEPT ![t].pc = "rejected",
                     ![t].response = Response("/api/research", 400, [error |-> "Query is required"])]
              /\ UNCHANGED <<clock, served>>
         ELSE /\ frames' = [frames EXCEPT ![t].pc = "create_research_plan",
                     ![t].query = query, ![t].depth = "quick",
                     ![t].research_id = research_id_of(clock)]
              /\ clock' = clock + 1
              /\ served' = served + 1
    /\ UNCHANGED <<config, research_history, run, response>>

\* Step 1 of research(), and plan['search_queries'] of step 2
Plan(t) ==
    /\ frames[t].pc = "create_research_plan"
    /\ LET p  == create_research_plan(frames[t].query, frames[t].depth)
           sq == search_queries_of(p.plan)
       IN  frames' = [frames EXCEPT
               ![t].plan = p.plan,
               ![t].calls = p.calls,
               ![t].queries = sq.value,
               ![t].pc = IF sq.raised THEN "raised" ELSE "execute_searches",
               ![t].response = IF sq.raised THEN Response("/api/research", 500, None)
                               ELSE NoResponse]
    /\ UNCHANGED frame_vars

\* execute_searches up to the await of asyncio.gather: the fallback results,
\* or one task per query
ExecuteSearches(t) ==
    /\ frames[t].pc = "execute_searches"
    /\ LET queries == frames[t].queries
       IN  IF ~search_is_live
           THEN frames' = [frames EXCEPT
                    ![t].search_results = _demo_search_results(queries),
                    ![t].pc = "analyze_results"]
           ELSE frames' = [frames EXCEPT
                    ![t].pending = 1..Len(queries),
                    ![t].completed = <<>>,
                    ![t].calls = @ \o [i \in 1..Len(queries) |-> Call("serper", "search", queries[i])],
                    ![t].pc = "gather"]
    /\ UNCHANGED frame_vars

\* one _search_web task completes; the tasks complete in any order, and
\* completed lists them as they do
SearchDone(t, i) ==
    /\ frames[t].pc = "gather"
    /\ i \in frames[t].pending
    /\ frames' = [frames EXCEPT
           ![t].pending = @ \ {i},
           ![t].completed = Append(@, [task |-> i,
                  result |-> _search_web(frames[t].queries[i], ReplyAt(serper, i))])]
    /\ UNCHANGED frame_vars

\* C15 mutant: the results in the order the tasks completed in
gather_results_as_completed(completed) ==
    [k \in 1..Len(completed) |-> completed[k].result]

\* the list asyncio.gather returns: the results of the tasks in the order
\* the tasks were passed in, whatever order they completed in
gather_results(completed) ==
    [k \in 1..Len(completed) |->
        LET e == CHOOSE e \in { completed[j] : j \in 1..Len(completed) } :
                    Cardinality({ j \in 1..Len(completed) : completed[j].task < e.task }) = k - 1
        IN  e.result]

\* C16 mutant: execute_searches returns while tasks are still running
Gather_before_join(t) ==
    /\ frames[t].pc = "gather"
    /\ frames' = [frames EXCEPT
           ![t].search_results = SelectSeq(gather_results(frames[t].completed),
                                           LAMBDA r : ~IsException(r)),
           ![t].pc = "analyze_results"]
    /\ UNCHANGED frame_vars

\* asyncio.gather returns once every task is done; the return statement of
\* execute_searches
Gather(t) ==
    /\ frames[t].pc = "gather"
    /\ frames[t].pending = {}
    /\ frames' = [frames EXCEPT
           ![t].search_results = SelectSeq(gather_results(frames[t].completed),
                                           LAMBDA r : ~IsException(r)),
           ![t].pc = "analyze_results"]
    /\ UNCHANGED frame_vars

\* one iteration of the loop of analyze_results
AnalyzeOne(t) ==
    /\ frames[t].pc = "analyze_results"
    /\ ~DEMO_MODE
    /\ frames[t].i <= Len(frames[t].search_results)
    /\ frames' = [frames EXCEPT
           ![t].acc = analyze_one(frames[t].query, frames[t].search_results[frames[t].i], @),
           ![t].i = @ + 1]
    /\ UNCHANGED frame_vars

\* analyze_results returns: at once in DEMO_MODE, else after the loop
AnalyzeReturn(t) ==
    /\ frames[t].pc = "analyze_results"
    /\ DEMO_MODE \/ frames[t].i > Len(frames[t].search_results)
    /\ frames' = [frames EXCEPT
           ![t].findings = IF DEMO_MODE THEN _demo_findings(frames[t].query)
                           ELSE analyze_return(frames[t].query, frames[t].acc.findings),
           ![t].calls = @ \o frames[t].acc.calls,
           ![t].pc = "synthesize_report"]
    /\ UNCHANGED frame_vars

\* Step 4 of research()
Synthesize(t) ==
    /\ frames[t].pc = "synthesize_report"
    /\ LET r == synthesize_report(frames[t].query, frames[t].findings, frames[t].depth)
       IN  frames' = [frames EXCEPT
               ![t].report = r.report,
               ![t].calls = @ \o r.calls,
               ![t].pc = IF r.raised THEN "raised" ELSE "result",
               ![t].response = IF r.raised THEN Response("/api/research", 500, None)
                               ELSE NoResponse]
    /\ UNCHANGED frame_vars

\* the result dict is built; the clock is read for its timestamp
BuildResult(t) ==
    /\ frames[t].pc = "result"
    /\ frames' = [frames EXCEPT
           ![t].result = result_of(frames[t].research_id, frames[t].query, frames[t].depth,
                                   frames[t].plan, frames[t].search_results,
                                   frames[t].findings, frames[t].report, clock),
           ![t].pc = "append"]
    /\ clock' = clock + 1
    /\ UNCHANGED <<config, research_history, served, run, response>>

\* self.research_history.append(result), one bytecode under the interpreter
\* lock, and the return of the result to the client
AppendResult(t) ==
    /\ frames[t].pc = "append"
    /\ research_history' = Append(research_history, frames[t].result)
    /\ frames' = [frames EXCEPT
           ![t].response = Response("/api/research", 200, frames[t].result),
           ![t].pc = "done"]
    /\ UNCHANGED <<config, clock, served, run, response>>

NextConc ==
    \E t \in Threads :
        \/ Begin(t)
        \/ Plan(t)
        \/ ExecuteSearches(t)
        \/ \E i \in 1..5 : SearchDone(t, i)
        \/ Gather(t)
        \/ AnalyzeOne(t)
        \/ AnalyzeReturn(t)
        \/ Synthesize(t)
        \/ BuildResult(t)
        \/ AppendResult(t)

SpecConc == InitConc /\ [][NextConc]_vars

\* every thread has taken a research request to its end
AllRequestsEnded ==
    \A t \in Threads : frames[t].pc \in {"done", "raised"}

\* C7: when K simultaneous research requests have ended, the history holds
\* exactly K records, one per request, each the record returned to it.
C7_NoLostAppend ==
    AllRequestsEnded
        => /\ Len(research_history) = NumThreads
           /\ \E pos \in [Threads -> 1..NumThreads] :
                /\ \A t, u \in Threads : pos[t] = pos[u] => t = u
                /\ \A t \in Threads :
                     /\ frames[t].response.status = 200
                     /\ research_history[pos[t]] = frames[t].response.body

-----------------------------------------------------------------------------
(* Further claims about one research() call, checked under Spec *)

\* the latest research() call got its plan from create_research_plan
Planned == run.stage # "none"

\* C11: every plan the Plan stage returns, live or fallback, has as many
\* search queries as sub-questions, and at most the count of the depth
\* (quick 3, standard 5, deep 8; 5 for an unrecognized depth).
C11_PlanLengths ==
    Planned
        => /\ run.plan.t = "object"
           /\ {"search_queries", "sub_questions"} \subseteq DOMAIN run.plan.v
           /\ Len(run.plan.v.search_queries) = Len(run.plan.v.sub_questions)
           /\ Len(run.plan.v.search_queries) <=
                CASE run.depth = "quick" -> 3
                  [] run.depth = "standard" -> 5
                  [] run.depth = "deep" -> 8
                  [] OTHER -> 5

\* C13: a research request without a query is answered 400, starts no
\* stage, makes no provider call and leaves the history as it was; no
\* research request is answered with any other error.
C13_OnlyEmptyQueryIsError ==
    [][ /\ response'.route = "/api/research" => response'.status \in {200, 400}
        /\ (response'.route = "/api/research" /\ response'.status # 400)
              => run'.query # EmptyQuery
        /\ (response'.status = 400 /\ response' # response)
              => UNCHANGED <<research_history, run, served, clock>> ]_vars

\* the outcomes of the Search stage that hold results
NonEmptyOutcomes == SelectSeq(run.search_results, LAMBDA r : r.results # <<>>)

\* the completions of the Extract stage that failed or were not JSON
FailedExtracts ==
    { k \in 1..Len(ExtractCalls) : ReplyAt(openai.extract, k).kind # "json" }

StageCalls(stage) == SelectSeq(run.calls, LAMBDA c : c.stage = stage)

\* C17: in one run every search query is sent to the search provider at
\* most once, and exactly once when the run is live and the search
\* credentials are present, whether its call failed or not; the Plan and
\* Synthesize stages make at most one completion request each; a run in
\* fallback mode makes no outbound call.
C17_NoRepeatedCalls ==
    Planned
        => /\ Len(StageCalls("plan")) <= 1
           /\ Len(StageCalls("synthesize")) <= 1
           /\ ~OPENAI_API_KEY => run.calls = <<>>
           /\ Searched
                => LET sq == run.plan.v.search_queries
                       sent(q) == { i \in 1..Len(StageCalls("search")) :
                                      StageCalls("search")[i].input = q }
                   IN  /\ \A i \in 1..Len(sq) : Cardinality(sent(sq[i])) <= 1
                       /\ (OPENAI_API_KEY /\ SERPER_API_KEY)
                            => /\ \A i \in 1..Len(sq) : Cardinality(sent(sq[i])) = 1
                               /\ Len(StageCalls("search")) = Len(sq)

\* C17 witness: a live run has returned in which a search call failed and
\* every search query was sent once.
C17_Witness ==
    /\ Returned /\ OPENAI_API_KEY /\ SERPER_API_KEY
    /\ \E i \in 1..Len(run.search_results) : "error" \in DOMAIN run.search_results[i]
    /\ Len(StageCalls("search")) = Len(run.plan.v.search_queries)
    /\ Len(StageCalls("plan")) = 1 /\ Len(StageCalls("synthesize")) = 1

-----------------------------------------------------------------------------
(* Claims about the status probe and the records' flag, checked under *)
(* SpecHistory                                                        *)

\* C12: for every credential configuration the status probe reports
\* web_search true exactly when the Search stage takes the live path, and
\* ai_planning and synthesis true exactly when the Plan and Synthesize
\* stages attempt a live call.
C12_StatusAccurate ==
    response.route = "/api/status"
        => /\ response.body.features.web_search
                <=> (execute_searches(<< <<"ai">> >>).calls # <<>>)
           /\ response.body.features.ai_planning
                <=> (create_research_plan(<<"ai">>, "quick").calls # <<>>)
           /\ response.body.features.synthesis
                <=> (synthesize_report(<<"ai">>, _demo_findings(<<"ai">>), "quick").calls # <<>>)


\* C19: the demo_mode flag of every record of the process is the same, true
\* exactly when the AI credentials are absent, whichever stages of the run
\* fell back.
C19_ModeFlagFixed ==
    /\ \A i \in 1..Len(research_history) :
          research_history[i].demo_mode = ~OPENAI_API_KEY
    /\ \A i, j \in 1..Len(research_history) :
          research_history[i].demo_mode = research_history[j].demo_mode
    /\ (response.route = "/api/research" /\ response.status = 200)
          => response.body.demo_mode = ~OPENAI_API_KEY

\* C19 witness: with AI credentials present every live call of a run failed,
\* its plan, findings and report are the fallback generator's, and its
\* record carries demo_mode false.
C19_Witness ==
    /\ OPENAI_API_KEY /\ SERPER_API_KEY
    /\ openai = OpenAiDown /\ serper = SerperDown
    /\ Len(research_history) >= 2
    /\ \A i \in 1..Len(research_history) :
          LET rec == research_history[i]
          IN  /\ rec.plan = _demo_research_plan(rec.query, rec.depth)
              /\ rec.findings = _demo_findings(rec.query)
              /\ rec.report = _demo_report(rec.query, rec.findings)
              /\ rec.demo_mode = FALSE

-----------------------------------------------------------------------------
(* The routes over many requests, with completions of the wrong shape among *)
(* the provider's behaviours: SpecRoutes.                                   *)

InitRoutes ==
    /\ Init
    /\ openai \in {OpenAiUnused, OpenAiUp, OpenAiDown, OpenAiWrongShape}
    /\ serper \in {SerperUnused, SerperUp, SerperDown}

SpecRoutes == InitRoutes /\ [][NextHistory]_vars

\* C18: the history is append-only: every step keeps the records it holds
\* at their positions with their content; a research run adds exactly one
\* record at the end; a listing, a status probe and a rejected request
\* leave the history as it was.
C18_AppendOnly ==
    [][ /\ Len(research_history') >= Len(research_history)
        /\ SubSeq(research_history', 1, Len(research_history)) = research_history
        /\ IF served' = served + 1
           THEN Len(research_history') = Len(research_history) + 1
           ELSE research_history' = research_history ]_vars

-----------------------------------------------------------------------------
(* Claims about the steps of one research() call, checked under SpecConc *)

\* execute_searches has returned to research() in thread t
SearchReturned(t) ==
    frames[t].pc \in {"analyze_results", "synthesize_report", "result", "append", "done"}

\* C15: the outcomes the Search stage returns are in the order of the
\* queries it was given, whatever order the search calls completed in: of
\* two outcomes, the earlier one's query is earlier in the list of queries.
C15_OutcomesInQueryOrder ==
    \A t \in Threads :
        LET sr == frames[t].search_results
            q == frames[t].queries
            pos(r) == CHOOSE k \in 1..Len(q) : q[k] = r.query
        IN  /\ \A i \in 1..Len(sr) : \E k \in 1..Len(q) : q[k] = sr[i].query
            /\ \A i, j \in 1..Len(sr) : i < j => pos(sr[i]) < pos(sr[j])

\* C15 witness: the search calls of a run completed in another order than
\* the queries', and the outcomes returned are in the order of the queries.
C15_Witness ==
    \E t \in Threads :
        /\ SearchReturned(t)
        /\ Len(frames[t].completed) >= 2
        /\ \E j, k \in 1..Len(frames[t].completed) :
              j < k /\ frames[t].completed[j].task > frames[t].completed[k].task
        /\ Len(frames[t].search_results) = Len(frames[t].queries)
        /\ \A i \in 1..Len(frames[t].search_results) :
              frames[t].search_results[i].query = frames[t].queries[i]

\* the outbound calls thread t has made so far, the Extract stage's included
\* while its loop runs
CallsSoFar(t) ==
    IF frames[t].pc = "analyze_results"
    THEN frames[t].calls \o frames[t].acc.calls
    ELSE frames[t].calls

StageRank(stage) ==
    CASE stage = "plan" -> 1
      [] stage = "search" -> 2
      [] stage = "extract" -> 3
      [] stage = "synthesize" -> 4

\* C16: in one run the stages come in the order Plan, Search, Extract,
\* Synthesize: no search call is made before the plan is there, every
\* search call has completed before the Extract stage starts, the
\* Synthesize stage makes its request only after the Extract stage has
\* returned its findings, and a record is in the history only after the
\* Synthesize stage has returned its report.
C16_StagesInOrder ==
    /\ \A t \in Threads :
          LET f == frames[t]
              calls == CallsSoFar(t)
              made(stage) == \E i \in 1..Len(calls) : calls[i].stage = stage
          IN  /\ \A i, j \in 1..Len(calls) :
                    i < j => StageRank(calls[i].stage) <= StageRank(calls[j].stage)
              /\ (made("search") \/ f.search_results # <<>>) => f.plan # None
              /\ (SearchReturned(t) \/ made("extract") \/ made("synthesize"))
                    => /\ f.pending = {}
                       /\ made("search") => Len(f.completed) = Len(f.queries)
              /\ (made("synthesize") \/ f.report # None)
                    => /\ f.pc \in {"raised", "result", "append", "done"}
                       /\ f.i > Len(f.search_results) \/ DEMO_MODE
                       /\ f.findings # <<>>
              /\ f.pc \in {"append", "done"} => f.result.report = f.report /\ f.report # None
    /\ \A k \in 1..Len(research_history) :
          \E t \in Threads :
              /\ frames[t].pc = "done"
              /\ frames[t].result = research_history[k]

\* C16 witness: a run that called out in all four stages has its record in
\* the history.
C16_Witness ==
    \E t \in Threads :
        /\ frames[t].pc = "done"
        /\ \A stage \in {"plan", "search", "extract", "synthesize"} :
              \E i \in 1..Len(frames[t].calls) : frames[t].calls[i].stage = stage
        /\ \E k \in 1..Len(research_history) : research_history[k] = frames[t].result
        /\ \E u \in Threads : frames[u].pc = "gather" /\ frames[u].pending # {}

=============================================================================
